---- MODULE Spec2Model ----
(***************************************************************************)
(* EPTB decision support tool (eptb_tool.py): the Streamlit session, its   *)
(* eight pages and the rules of the pharmacotherapy evaluation.            *)
(*                                                                         *)
(* A state is the session's patient_data dictionary together with what the *)
(* last script run rendered.  One script run executes exactly one page     *)
(* branch, chosen by the sidebar radio.  A page is either opened (its      *)
(* widgets return their default values) or, for a page with input widgets, *)
(* edited (the widgets return what the user entered).                      *)
(*                                                                         *)
(* Python floats are IEEE-754 doubles.  They are modelled exactly, as      *)
(* m * 2^e with m a natural number of any size (a little-endian sequence   *)
(* of 13-bit limbs), every operation rounded to 53 bits, ties to even.     *)
(* All floats of the program are positive and far from the subnormal and   *)
(* overflow ranges, so sign, subnormals and infinities are left out.       *)
(***************************************************************************)
EXTENDS Integers, Sequences, FiniteSets, TLC

VARIABLES patient_data, page, findings, error, duration_status

vars == <<patient_data, page, findings, error, duration_status>>

(***************************************************************************)
(* Arbitrary-size naturals and correctly rounded double arithmetic.        *)
(***************************************************************************)
LimbBase == 2^13

RECURSIVE BigNorm(_)
BigNorm(a) ==
    IF a = <<>> THEN <<>>
    ELSE IF a[Len(a)] = 0 THEN BigNorm(SubSeq(a, 1, Len(a) - 1)) ELSE a

RECURSIVE BigFromNat(_)
BigFromNat(n) ==
    IF n = 0 THEN <<>> ELSE <<n % LimbBase>> \o BigFromNat(n \div LimbBase)

RECURSIVE BigMulSmallC(_, _, _)
BigMulSmallC(a, s, c) ==
    IF a = <<>> THEN BigFromNat(c)
    ELSE LET t == a[1] * s + c
         IN  <<t % LimbBase>> \o BigMulSmallC(Tail(a), s, t \div LimbBase)

BigMulSmall(a, s) == BigNorm(BigMulSmallC(a, s, 0))

RECURSIVE BigAddC(_, _, _)
BigAddC(a, b, c) ==
    IF a = <<>> /\ b = <<>> THEN BigFromNat(c)
    ELSE LET x == IF a = <<>> THEN 0 ELSE a[1]
             y == IF b = <<>> THEN 0 ELSE b[1]
             t == x + y + c
         IN  <<t % LimbBase>> \o
             BigAddC(IF a = <<>> THEN <<>> ELSE Tail(a),
                     IF b = <<>> THEN <<>> ELSE Tail(b), t \div LimbBase)

BigAdd(a, b) == BigNorm(BigAddC(a, b, 0))

RECURSIVE BigSubB(_, _, _)
BigSubB(a, b, c) ==
    IF a = <<>> THEN <<>>
    ELSE LET y == IF b = <<>> THEN 0 ELSE b[1]
             t == a[1] - y - c
         IN  <<t % LimbBase>> \o
             BigSubB(Tail(a), IF b = <<>> THEN <<>> ELSE Tail(b),
                     IF t < 0 THEN 1 ELSE 0)

BigSub(a, b) == BigNorm(BigSubB(a, b, 0))

RECURSIVE BigLessFrom(_, _, _)
BigLessFrom(a, b, i) ==
    IF i = 0 THEN FALSE
    ELSE IF a[i] # b[i] THEN a[i] < b[i] ELSE BigLessFrom(a, b, i - 1)

BigLess(a, b) ==
    IF Len(a) # Len(b) THEN Len(a) < Len(b) ELSE BigLessFrom(a, b, Len(a))

RECURSIVE BigMul(_, _)
BigMul(a, b) ==
    IF a = <<>> \/ b = <<>> THEN <<>>
    ELSE LET rest == BigMul(a, Tail(b))
         IN  BigAdd(BigMulSmall(a, b[1]),
                    IF rest = <<>> THEN <<>> ELSE <<0>> \o rest)

RECURSIVE SmallBitLen(_)
SmallBitLen(n) == IF n = 0 THEN 0 ELSE 1 + SmallBitLen(n \div 2)

BitLen(a) == IF a = <<>> THEN 0 ELSE 13 * (Len(a) - 1) + SmallBitLen(a[Len(a)])

Bit(a, i) ==
    IF i \div 13 + 1 > Len(a) THEN 0
    ELSE (a[i \div 13 + 1] \div (2 ^ (i % 13))) % 2

BigShl(a, k) ==
    IF a = <<>> THEN <<>>
    ELSE [i \in 1..(k \div 13) |-> 0] \o BigMulSmall(a, 2 ^ (k % 13))

\* binary long division of limb j of a, bit i downto 0, continuing from <<q, r>>
RECURSIVE BigDivBits(_, _, _, _, _)
BigDivBits(a, b, j, i, qr) ==
    IF i < 0 THEN qr
    ELSE LET r2 == BigNorm(BigMulSmallC(qr[2], 2, (a[j] \div (2 ^ i)) % 2))
             ge == ~BigLess(r2, b)
             q2 == BigNorm(BigMulSmallC(qr[1], 2, IF ge THEN 1 ELSE 0))
         IN  BigDivBits(a, b, j, i - 1, <<q2, IF ge THEN BigSub(r2, b) ELSE r2>>)

RECURSIVE BigDivLimbs(_, _, _, _)
BigDivLimbs(a, b, j, qr) ==
    IF j = 0 THEN qr
    ELSE LET s == BigDivBits(a, b, j, 12, qr)
         IN  IF Len(s[1]) >= 0 /\ Len(s[2]) >= 0
             THEN BigDivLimbs(a, b, j - 1, s)
             ELSE qr

BigDivMod(a, b) == BigDivLimbs(a, b, Len(a), <<<<>>, <<>>>>)

RECURSIVE BigDivSmallR(_, _, _)
BigDivSmallR(a, s, r) ==
    IF a = <<>> THEN <<>>
    ELSE LET n == Len(a)
             t == r * LimbBase + a[n]
         IN  Append(BigDivSmallR(SubSeq(a, 1, n - 1), s, t % s), t \div s)

BigShr(a, k) ==
    IF k \div 13 >= Len(a) THEN <<>>
    ELSE BigNorm(BigDivSmallR(SubSeq(a, k \div 13 + 1, Len(a)), 2 ^ (k % 13), 0))

\* the canonical form of a float: an odd mantissa (zero: empty mantissa, e = 0)
RECURSIVE FNorm(_)
FNorm(x) ==
    IF x.m = <<>> THEN [m |-> <<>>, e |-> 0]
    ELSE IF x.m[1] = 0 THEN FNorm([m |-> Tail(x.m), e |-> x.e + 13])
    ELSE IF x.m[1] % 2 = 0 THEN FNorm([m |-> BigShr(x.m, 1), e |-> x.e + 1])
    ELSE x

\* round p * 2^e (plus a nonzero tail below p when sticky) to 53 bits, ties to even
FRound(p, e, sticky) ==
    LET len == BitLen(p)
    IN  IF len <= 53 THEN FNorm([m |-> p, e |-> e])
        ELSE LET s    == len - 53
                 q    == BigShr(p, s)
                 rem  == BigSub(p, BigShl(q, s))
                 half == BigShl(<<1>>, s - 1)
                 up   == \/ BigLess(half, rem)
                         \/ /\ rem = half
                            /\ (sticky \/ Bit(q, 0) = 1)
             IN  FNorm([m |-> IF up THEN BigAdd(q, <<1>>) ELSE q, e |-> e + s])

FMul(a, b) == FRound(BigMul(a.m, b.m), a.e + b.e, FALSE)

FDivBig(n, d, e) ==
    LET k  == IF 56 + BitLen(d) - BitLen(n) > 0 THEN 56 + BitLen(d) - BitLen(n) ELSE 0
        qr == BigDivMod(BigShl(n, k), d)
    IN  FRound(qr[1], e - k, qr[2] # <<>>)

FDiv(a, b) == FDivBig(a.m, b.m, a.e - b.e)
FFromRatio(n, d) == FDivBig(BigFromNat(n), BigFromNat(d), 0)
FFromNat(n) == FNorm([m |-> BigFromNat(n), e |-> 0])

FLess(a, b) ==
    IF a.e >= b.e THEN BigLess(BigShl(a.m, a.e - b.e), b.m)
    ELSE BigLess(a.m, BigShl(b.m, b.e - a.e))

IntLessF(d, x) == d < 0 \/ FLess(FFromNat(d), x)
FLessInt(x, d) == d >= 0 /\ FLess(x, FFromNat(d))


\* exact comparison of a float with the rational n / d (n, d naturals, d > 0)
FLessRatio(x, n, d) ==
    IF x.e >= 0 THEN BigLess(BigShl(BigMulSmall(x.m, d), x.e), BigFromNat(n))
    ELSE BigLess(BigMulSmall(x.m, d), BigShl(BigFromNat(n), 0 - x.e))

RatioLessF(n, d, x) ==
    IF x.e >= 0 THEN BigLess(BigFromNat(n), BigShl(BigMulSmall(x.m, d), x.e))
    ELSE BigLess(BigShl(BigFromNat(n), 0 - x.e), BigMulSmall(x.m, d))

(***************************************************************************)
(* The session dictionary: a function whose domain is the set of keys      *)
(* present.  d.get(k, default) is Get, d[k] = v is Put / Update.           *)
(***************************************************************************)
None == "None"

EmptyDict == [k \in {} |-> None]

Get(d, k, default) == IF k \in DOMAIN d THEN d[k] ELSE default

Update(d, r) ==
    [k \in (DOMAIN d) \cup (DOMAIN r) |-> IF k \in DOMAIN r THEN r[k] ELSE d[k]]

\* a table computed once, as the set of its pairs <<argument, value>>
Lookup(table, a) == (CHOOSE p \in table : p[1] = a)[2]

\* what a script run renders: the st.error / st.warning / st.success /
\* st.info / st.write / st.markdown calls that carry a verdict, in the order
\* they are made; level is the call (error is a Fail, success a Pass)
Finding(category, level, message) ==
    [category |-> category, level |-> level, message |-> message]

PAGE_PATIENT == "1. Patient Info"
PAGE_TYPE    == "2. EPTB Type & Severity"
PAGE_REGIMEN == "3. Prescribed Regimen"
PAGE_EVAL    == "4. Pharmacotherapy Eval"
PAGE_SAFETY  == "5. Side Effects & Interactions"
PAGE_OUTCOME == "6. Outcome Prediction"
PAGE_STATS   == "7. Statistical Analysis"
PAGE_REPORT  == "8. Final Report"

NotStarted == "not started"

(***************************************************************************)
(* Bounds of the model and the inputs the widgets are given.               *)
(***************************************************************************)
\* the duration widgets accept 1..12 and 1..24 months; the model enters
\* 1..MaxIpMonths and 1..MaxCpMonths
MaxIpMonths == 2
MaxCpMonths == 7

\* a float entered in a number_input: the double nearest to n / 100
Dec(n) == FFromRatio(n, 100)

eptb_types ==
    {"Pleural TB", "Lymph Node TB", "Abdominal TB", "Genitourinary TB",
     "Pericardial TB", "Bone/Joint TB", "TB Meningitis", "Disseminated TB"}

ip_drug_options ==
    {"Isoniazid (H)", "Rifampicin (R)", "Pyrazinamide (Z)", "Ethambutol (E)"}

AgeInputs        == {25, 104}
SexInputs        == {"Male", "Female"}
WeightInputs     == {4020, 5000, 6000}      \* kg / 100
CreatinineInputs == {50, 90, 100}           \* mg/dL / 100
HivInputs        == {"Negative", "Positive"}
SeverityInputs   == {"Moderate", "Severe"}
DoseRInputs      == {450, 600}
DoseZInputs      == {804, 1100, 1200, 1500, 1800, 1900}

PatientWidgets(age, sex, weight, creatinine, hiv_status) ==
    [name |-> "", age |-> age, sex |-> sex, weight |-> Dec(weight),
     height |-> 170, creatinine |-> Dec(creatinine),
     hiv_status |-> hiv_status, liver_disease |-> FALSE]

\* what the user enters on page 1: every age, sex and creatinine at 60 kg,
\* every weight, and every HIV status
PatientInputs ==
    {PatientWidgets(a, s, 6000, c, "Negative") :
        a \in AgeInputs, s \in SexInputs, c \in CreatinineInputs}
    \cup {PatientWidgets(25, "Female", w, 90, "Negative") : w \in WeightInputs}
    \cup {PatientWidgets(25, "Female", 6000, 90, h) : h \in HivInputs}

ClassificationInputs ==
    {[eptb_type |-> t, severity |-> "Moderate"] : t \in eptb_types}
    \cup {[eptb_type |-> "Pleural TB", severity |-> v] : v \in SeverityInputs}

RegimenWidgets(ip_drugs, ip_duration, cp_duration, dose_R, dose_Z) ==
    [ip_drugs |-> ip_drugs, ip_duration |-> ip_duration,
     cp_drugs |-> {"Isoniazid (H)", "Rifampicin (R)"},
     cp_duration |-> cp_duration,
     dose_H |-> 300, dose_R |-> dose_R, dose_Z |-> dose_Z, dose_E |-> 1200]

\* what the user enters on page 3: every drug set, every length of either
\* phase, every Rifampicin dose, every Pyrazinamide dose, and all doses 0
RegimenInputs ==
    {RegimenWidgets(ds, 2, 4, 600, 1500) : ds \in SUBSET ip_drug_options}
    \cup {RegimenWidgets(ip_drug_options, i, 4, 600, 1500) : i \in 1..MaxIpMonths}
    \cup {RegimenWidgets(ip_drug_options, 2, c, 600, 1500) : c \in 1..MaxCpMonths}
    \cup {RegimenWidgets(ip_drug_options, 2, 4, r, 1500) : r \in DoseRInputs}
    \cup {RegimenWidgets(ip_drug_options, 2, 4, 600, z) : z \in DoseZInputs}
    \cup {RegimenWidgets(ip_drug_options, 2, 4, 0, 0)}

(***************************************************************************)
(* Page 1: patient information, eGFR and the renal check.                  *)
(***************************************************************************)
\* a variant with the severe band closed at 30 (egfr <= 30), which the renal
\* bands property must tell from the code
check_renal_adjustment_closed(egfr) ==
    IF ~IntLessF(30, egfr)
    THEN <<TRUE, "Severe Renal Impairment: Pyrazinamide and Ethambutol require dose/frequency adjustment">>
    ELSE IF FLessInt(egfr, 60)
    THEN <<TRUE, "Moderate Renal Impairment: Monitor closely.">>
    ELSE <<FALSE, "Renal function acceptable.">>

check_renal_adjustment(egfr) ==
    IF FLessInt(egfr, 30)
    THEN <<TRUE, "Severe Renal Impairment: Pyrazinamide and Ethambutol require dose/frequency adjustment">>
    ELSE IF FLessInt(egfr, 60)
    THEN <<TRUE, "Moderate Renal Impairment: Monitor closely.">>
    ELSE <<FALSE, "Renal function acceptable.">>

\* a variant with the sex factors exchanged (0.85 for Male), which the eGFR
\* example must tell from the code
estimate_egfr_exchanged(age, sex, wt, creat) ==
    LET sex_factor == IF sex = "Male" THEN FFromRatio(85, 100) ELSE FFromNat(1)
    IN  FDiv(FMul(FMul(FFromNat(140 - age), wt), sex_factor),
             FMul(FFromNat(72), creat))

\* egfr = ((140 - age) * wt * sex_factor) / (72 * creat), in doubles
estimate_egfr(age, sex, wt, creat) ==
    LET sex_factor == IF sex = "Female" THEN FFromRatio(85, 100) ELSE FFromNat(1)
    IN  FDiv(FMul(FMul(FFromNat(140 - age), wt), sex_factor),
             FMul(FFromNat(72), creat))

\* estimate_egfr at every argument the model enters, computed once: the
\* pairs <<arguments, value>>
egfr_of ==
    {<<a, estimate_egfr(a[1], a[2], a[3], a[4])>> :
        a \in {<<w.age, w.sex, w.weight, w.creatinine>> : w \in PatientInputs}}

\* value=60.0 and value=0.9 of the weight and creatinine widgets
weight_value == Dec(6000)
creatinine_value == Dec(90)

\* the values the page 1 widgets return when the page is opened
PatientInfoDefaults(data) ==
    [name |-> Get(data, "name", ""),
     age |-> Get(data, "age", 25),
     sex |-> IF Get(data, "sex", None) = "Male" THEN "Male" ELSE "Female",
     weight |-> Get(data, "weight", weight_value),
     height |-> Get(data, "height", 170),
     creatinine |-> Get(data, "creatinine", creatinine_value),
     hiv_status |-> "Negative",
     liver_disease |-> FALSE]

PatientInfoPage(data, w) ==
    LET egfr  == Lookup(egfr_of, <<w.age, w.sex, w.weight, w.creatinine>>)
        renal == check_renal_adjustment(egfr)
    IN  [data |-> Update(Update(data, w), [egfr |-> egfr]),
         findings |->
            <<IF renal[1] THEN Finding("Renal", "error", renal[2])
              ELSE Finding("Renal", "success", "Renal Function OK")>>]

(***************************************************************************)
(* Page 2: EPTB type and severity.                                         *)
(***************************************************************************)
ClassificationDefaults(data) ==
    [eptb_type |-> Get(data, "eptb_type", "Pleural TB"),
     severity |-> Get(data, "severity", "Moderate")]

ClassificationPage(data, w) ==
    IF w.eptb_type \in {"TB Meningitis", "Bone/Joint TB"}
    THEN [data |-> Update(Update(data, w), [req_duration |-> 12]),
          findings |-> <<Finding("WHO Guideline", "warning",
                                 "requires extended treatment (9-12 months)")>>]
    ELSE [data |-> Update(Update(data, w), [req_duration |-> 6]),
          findings |-> <<Finding("WHO Guideline", "success",
                                 "Standard 6-month regimen is usually sufficient")>>]

(***************************************************************************)
(* Page 3: the prescribed regimen.                                         *)
(***************************************************************************)
\* data.get('weight', 60): the integer 60, the same number as the float 60.0
weight_default == FFromNat(60)

WeightValues == {w.weight : w \in PatientInputs} \cup {weight_default}

\* the weights over 50 among those the model enters, computed once
over_50 == {w \in WeightValues : FLess(FFromNat(50), w)}

RegimenDefaults(data) ==
    RegimenWidgets(ip_drug_options, 2, 4,
                   IF Get(data, "weight", weight_default) \in over_50
                   THEN 600 ELSE 450,
                   1500)

RegimenPage(data, w) == [data |-> Update(data, w), findings |-> <<>>]

(***************************************************************************)
(* Page 4: the pharmacotherapy evaluation.                                 *)
(***************************************************************************)
\* a variant that fails the severe types up to and including 9 months, which
\* the duration verdict property must tell from the code
DurationCheckClosed(data) ==
    LET is_severe_type ==
            Get(data, "eptb_type", None) \in {"TB Meningitis", "Bone/Joint TB"}
        total_duration ==
            Get(data, "ip_duration", 0) + Get(data, "cp_duration", 0)
    IN  IF is_severe_type /\ total_duration <= 9
        THEN [raised |-> "eptb_type" \notin DOMAIN data,
              duration_status |-> "Fail",
              findings |->
                <<Finding("Duration", "error", "WHO Guidelines mandate 9-12 months"),
                  Finding("Duration", "markdown", "Recommendation: Extend Continuation Phase.")>>]
        ELSE IF ~is_severe_type /\ total_duration < 6
        THEN [raised |-> FALSE,
              duration_status |-> "Fail",
              findings |->
                <<Finding("Duration", "error", "Standard EPTB requires minimum 6 months")>>]
        ELSE [raised |-> "eptb_type" \notin DOMAIN data,
              duration_status |-> "Pass",
              findings |->
                <<Finding("Duration", "success", "Duration is appropriate")>>]

\* a variant that applies the 6 month minimum to every type, which the
\* property of a Pass must tell from the code
DurationCheckStandard(data) ==
    LET total_duration ==
            Get(data, "ip_duration", 0) + Get(data, "cp_duration", 0)
    IN  IF total_duration < 6
        THEN [raised |-> FALSE,
              duration_status |-> "Fail",
              findings |->
                <<Finding("Duration", "error", "Standard EPTB requires minimum 6 months")>>]
        ELSE [raised |-> "eptb_type" \notin DOMAIN data,
              duration_status |-> "Pass",
              findings |->
                <<Finding("Duration", "success", "Duration is appropriate")>>]

\* 1. Duration Check.  raised: the f-string of the branch subscripts
\* data['eptb_type'], a KeyError when the key is absent
DurationCheck(data) ==
    LET is_severe_type ==
            Get(data, "eptb_type", None) \in {"TB Meningitis", "Bone/Joint TB"}
        total_duration ==
            Get(data, "ip_duration", 0) + Get(data, "cp_duration", 0)
    IN  IF is_severe_type /\ total_duration < 9
        THEN [raised |-> "eptb_type" \notin DOMAIN data,
              duration_status |-> "Fail",
              findings |->
                <<Finding("Duration", "error", "WHO Guidelines mandate 9-12 months"),
                  Finding("Duration", "markdown", "Recommendation: Extend Continuation Phase.")>>]
        ELSE IF ~is_severe_type /\ total_duration < 6
        THEN [raised |-> FALSE,
              duration_status |-> "Fail",
              findings |->
                <<Finding("Duration", "error", "Standard EPTB requires minimum 6 months")>>]
        ELSE [raised |-> "eptb_type" \notin DOMAIN data,
              duration_status |-> "Pass",
              findings |->
                <<Finding("Duration", "success", "Duration is appropriate")>>]

\* a variant that takes 50 kg for the upper weight band (weight >= 50), which
\* the Rifampicin property must tell from the code
RifampicinCheckUpper(weight, r_dose) ==
    IF ~FLess(weight, FFromNat(50)) /\ r_dose < 600
    THEN Finding("Rifampicin", "warning", "Rifampicin Potential Underdose")
    ELSE IF FLess(weight, FFromNat(50)) /\ r_dose >= 600
    THEN Finding("Rifampicin", "warning", "Rifampicin Potential Overdose")
    ELSE Finding("Rifampicin", "success", "Rifampicin dose appears correct")

\* 2. Dosage Check: Rifampicin
RifampicinCheck(weight, r_dose) ==
    IF FLess(FFromNat(50), weight) /\ r_dose < 600
    THEN Finding("Rifampicin", "warning", "Rifampicin Potential Underdose")
    ELSE IF FLess(weight, FFromNat(50)) /\ r_dose >= 600
    THEN Finding("Rifampicin", "warning", "Rifampicin Potential Overdose")
    ELSE Finding("Rifampicin", "success", "Rifampicin dose appears correct")

\* 2. Dosage Check: Pyrazinamide; z_target, z_target * 0.8 and z_target * 1.2
\* are doubles, z_dose is an integer
PyrazinamideCheck(weight, z_dose) ==
    LET z_target == FMul(weight, FFromNat(25))
    IN  IF IntLessF(z_dose, FMul(z_target, FFromRatio(8, 10)))
        THEN Finding("Pyrazinamide", "warning", "Pyrazinamide Low")
        ELSE IF FLessInt(FMul(z_target, FFromRatio(12, 10)), z_dose)
        THEN Finding("Pyrazinamide", "warning", "Pyrazinamide High")
        ELSE Finding("Pyrazinamide", "success", "Pyrazinamide dose acceptable")

\* the two dosage checks at every weight and dose the model enters (and the
\* defaults of data.get), computed once
rifampicin_of ==
    {<<a, RifampicinCheck(a[1], a[2])>> :
        a \in WeightValues \X ({w.dose_R : w \in RegimenInputs} \cup {0})}

pyrazinamide_of ==
    {<<a, PyrazinamideCheck(a[1], a[2])>> :
        a \in WeightValues \X ({w.dose_Z : w \in RegimenInputs} \cup {0})}

\* 3. Regimen Selection
RegimenSelection(data) ==
    (IF /\ Get(data, "eptb_type", None) = "TB Meningitis"
        /\ "Streptomycin (S)" \notin Get(data, "ip_drugs", {})
     THEN <<Finding("Regimen", "info", "WHO suggests considering Streptomycin")>>
     ELSE <<>>)
    \o <<Finding("Regimen", "success", "Regimen Structure matches standard protocol structures")>>

\* a variant that stores the total of the two phases in the dictionary as
\* ip_duration, which the property that the evaluation pages leave the
\* record alone must tell from the code
PharmacotherapyEvalStoring(data) ==
    LET weight   == Get(data, "weight", weight_default)
        duration == DurationCheck(data)
        total    == Get(data, "ip_duration", 0) + Get(data, "cp_duration", 0)
    IN  IF duration.raised
        THEN [data |-> data, findings |-> <<>>, error |-> "KeyError",
              duration_status |-> "unset"]
        ELSE [data |-> Update(data, [ip_duration |-> total]),
              findings |->
                duration.findings
                \o <<Lookup(rifampicin_of, <<weight, Get(data, "dose_R", 0)>>)>>
                \o <<Lookup(pyrazinamide_of, <<weight, Get(data, "dose_Z", 0)>>)>>
                \o RegimenSelection(data),
              error |-> "none",
              duration_status |-> duration.duration_status]

\* the whole page: what it leaves in the dictionary, what it renders, the
\* exception that ended the run (if any) and the local duration_status
PharmacotherapyEval(data) ==
    LET weight   == Get(data, "weight", weight_default)
        duration == DurationCheck(data)
    IN  IF duration.raised
        THEN [data |-> data, findings |-> <<>>, error |-> "KeyError",
              duration_status |-> "unset"]
        ELSE [data |-> data,
              findings |->
                duration.findings
                \o <<Lookup(rifampicin_of, <<weight, Get(data, "dose_R", 0)>>)>>
                \o <<Lookup(pyrazinamide_of, <<weight, Get(data, "dose_Z", 0)>>)>>
                \o RegimenSelection(data),
              error |-> "none",
              duration_status |-> duration.duration_status]

(***************************************************************************)
(* Page 5: side effects and interactions.                                  *)
(***************************************************************************)
SideEffect(drugs, drug, message) ==
    IF drug \in drugs THEN <<Finding("SideEffect", "write", message)>> ELSE <<>>

\* a variant that shows the diabetes note only when there is no HIV
\* interaction (an else branch), which the side-effect property must tell
\* from the code
SafetyAnalysisElse(data) ==
    LET drugs == Get(data, "ip_drugs", {})
    IN  [data |-> data,
         findings |->
            SideEffect(drugs, "Rifampicin (R)", "Rifampicin")
            \o SideEffect(drugs, "Isoniazid (H)", "Isoniazid")
            \o SideEffect(drugs, "Pyrazinamide (Z)", "Pyrazinamide")
            \o SideEffect(drugs, "Ethambutol (E)", "Ethambutol")
            \o (IF Get(data, "hiv_status", None) = "Positive"
                THEN <<Finding("Interaction", "error", "HIV INTERACTION")>>
                ELSE <<Finding("Interaction", "write", "Diabetes")>>)]

SafetyAnalysis(data) ==
    LET drugs == Get(data, "ip_drugs", {})
    IN  [data |-> data,
         findings |->
            SideEffect(drugs, "Rifampicin (R)", "Rifampicin")
            \o SideEffect(drugs, "Isoniazid (H)", "Isoniazid")
            \o SideEffect(drugs, "Pyrazinamide (Z)", "Pyrazinamide")
            \o SideEffect(drugs, "Ethambutol (E)", "Ethambutol")
            \o (IF Get(data, "hiv_status", None) = "Positive"
                THEN <<Finding("Interaction", "error", "HIV INTERACTION")>>
                ELSE <<>>)
            \o <<Finding("Interaction", "write", "Diabetes")>>]

(***************************************************************************)
(* Page 8: the final report.                                               *)
(***************************************************************************)
FinalReport(data, report_btn) ==
    [data |-> data,
     findings |->
        IF report_btn
        THEN <<Finding("Report", "download", "Review Required")>>
        ELSE <<>>]

(***************************************************************************)
(* The session.                                                            *)
(***************************************************************************)
Init ==
    /\ patient_data = EmptyDict
    /\ page = NotStarted
    /\ findings = <<>>
    /\ error = "none"
    /\ duration_status = "unset"

\* a script run of page p that ended normally with result r
Rendered(p, r) ==
    /\ page' = p
    /\ patient_data' = r.data
    /\ findings' = r.findings
    /\ error' = "none"
    /\ duration_status' = "unset"

\* the first script run shows page 1, the radio's default
OpenPatientInfo ==
    Rendered(PAGE_PATIENT,
             PatientInfoPage(patient_data, PatientInfoDefaults(patient_data)))

EditPatientInfo ==
    /\ page = PAGE_PATIENT
    /\ \E w \in PatientInputs :
          Rendered(PAGE_PATIENT, PatientInfoPage(patient_data, w))

OpenClassification ==
    /\ page # NotStarted
    /\ Rendered(PAGE_TYPE,
                ClassificationPage(patient_data, ClassificationDefaults(patient_data)))

EditClassification ==
    /\ page = PAGE_TYPE
    /\ \E w \in ClassificationInputs :
          Rendered(PAGE_TYPE, ClassificationPage(patient_data, w))

OpenRegimen ==
    /\ page # NotStarted
    /\ Rendered(PAGE_REGIMEN, RegimenPage(patient_data, RegimenDefaults(patient_data)))

EditRegimen ==
    /\ page = PAGE_REGIMEN
    /\ \E w \in RegimenInputs :
          Rendered(PAGE_REGIMEN, RegimenPage(patient_data, w))

OpenPharmacotherapyEval ==
    /\ page # NotStarted
    /\ LET r == PharmacotherapyEval(patient_data)
       IN  /\ page' = PAGE_EVAL
           /\ patient_data' = r.data
           /\ findings' = r.findings
           /\ error' = r.error
           /\ duration_status' = r.duration_status

OpenSafetyAnalysis ==
    /\ page # NotStarted
    /\ Rendered(PAGE_SAFETY, SafetyAnalysis(patient_data))

\* page 6 has no branch and page 7 never touches the session dictionary
OpenOtherPage ==
    /\ page # NotStarted
    /\ \E p \in {PAGE_OUTCOME, PAGE_STATS} :
          Rendered(p, [data |-> patient_data, findings |-> <<>>])

OpenFinalReport ==
    /\ page # NotStarted
    /\ Rendered(PAGE_REPORT, FinalReport(patient_data, FALSE))

GenerateReport ==
    /\ page = PAGE_REPORT
    /\ Rendered(PAGE_REPORT, FinalReport(patient_data, TRUE))

Next ==
    \/ OpenPatientInfo
    \/ EditPatientInfo
    \/ OpenClassification
    \/ EditClassification
    \/ OpenRegimen
    \/ EditRegimen
    \/ OpenPharmacotherapyEval
    \/ OpenSafetyAnalysis
    \/ OpenOtherPage
    \/ OpenFinalReport
    \/ GenerateReport

Spec == Init /\ [][Next]_vars

(***************************************************************************)
(* Properties.                                                             *)
(***************************************************************************)
OfCategory(fs, c) == SelectSeq(fs, LAMBDA f : f.category = c)

Verdicts(fs, c) == SelectSeq(fs, LAMBDA f : f.category = c /\ f.level # "markdown")

Total(data) == Get(data, "ip_duration", 0) + Get(data, "cp_duration", 0)

SevereTypes == {"TB Meningitis", "Bone/Joint TB"}

\* C1: for every eptb_type and every pair of phase lengths the duration rule
\* renders exactly one verdict: Fail when the type is TB Meningitis or
\* Bone/Joint TB and total < 9, Fail when the type is any other and total < 6,
\* Pass otherwise
C1_DurationVerdict ==
    (page = PAGE_EVAL /\ "eptb_type" \in DOMAIN patient_data) =>
        LET severe == patient_data["eptb_type"] \in SevereTypes
            total  == Total(patient_data)
            fail   == (severe /\ total < 9) \/ (~severe /\ total < 6)
            v      == Verdicts(findings, "Duration")
        IN  /\ error = "none"
            /\ Len(v) = 1
            /\ duration_status = (IF fail THEN "Fail" ELSE "Pass")
            /\ v[1].level = (IF fail THEN "error" ELSE "success")

C1_Witness ==
    /\ page = PAGE_EVAL
    /\ "eptb_type" \in DOMAIN patient_data
    /\ patient_data["eptb_type"] = "TB Meningitis"
    /\ Total(patient_data) = 9
    /\ duration_status = "Pass"

\* C2: the pharmacotherapy evaluation always completes: whatever pages were
\* visited before, it renders a duration verdict, a Rifampicin verdict, a
\* Pyrazinamide verdict and the regimen-structure summary
C2_EvalCompletes ==
    page = PAGE_EVAL =>
        /\ error = "none"
        /\ Len(Verdicts(findings, "Duration")) = 1
        /\ Len(OfCategory(findings, "Rifampicin")) = 1
        /\ Len(OfCategory(findings, "Pyrazinamide")) = 1
        /\ \E i \in 1..Len(findings) :
              findings[i].category = "Regimen" /\ findings[i].level = "success"

\* the weights of WeightInputs as the doubles the widget stores, computed once
weight_entered == {<<Dec(n), n>> : n \in WeightInputs}

\* the weight the evaluation reads, as the user entered it (kg / 100)
EnteredWeight(data) ==
    IF "weight" \in DOMAIN data THEN Lookup(weight_entered, data["weight"]) ELSE 6000

\* C3: for every weight and dose the Rifampicin check renders one finding:
\* the underdose Warning when weight > 50 and dose < 600, the overdose
\* Warning when weight < 50 and dose >= 600, Pass otherwise; at weight 50
\* exactly every dose is a Pass
C3_RifampicinVerdict ==
    (page = PAGE_EVAL /\ error = "none") =>
        LET weight == EnteredWeight(patient_data)
            r_dose == Get(patient_data, "dose_R", 0)
            v      == OfCategory(findings, "Rifampicin")
        IN  /\ Len(v) = 1
            /\ v[1] = (IF weight > 5000 /\ r_dose < 600
                       THEN Finding("Rifampicin", "warning", "Rifampicin Potential Underdose")
                       ELSE IF weight < 5000 /\ r_dose >= 600
                       THEN Finding("Rifampicin", "warning", "Rifampicin Potential Overdose")
                       ELSE Finding("Rifampicin", "success", "Rifampicin dose appears correct"))

C3_Witness ==
    /\ page = PAGE_EVAL
    /\ error = "none"
    /\ EnteredWeight(patient_data) = 5000
    /\ Get(patient_data, "dose_R", 0) = 450
    /\ OfCategory(findings, "Rifampicin")
         = <<Finding("Rifampicin", "success", "Rifampicin dose appears correct")>>

\* C4: with target = weight * 25, the Pyrazinamide check renders the low
\* Warning exactly when dose < 0.8 * target, the high Warning exactly when
\* dose > 1.2 * target, and Pass otherwise, the two bounds themselves being
\* a Pass.  With the weight in kg / 100, 0.8 * target is weight / 5 and
\* 1.2 * target is 3 * weight / 10
C4_PyrazinamideVerdict ==
    (page = PAGE_EVAL /\ error = "none") =>
        LET weight == EnteredWeight(patient_data)
            z_dose == Get(patient_data, "dose_Z", 0)
            v      == OfCategory(findings, "Pyrazinamide")
        IN  /\ Len(v) = 1
            /\ v[1] = (IF 5 * z_dose < weight
                       THEN Finding("Pyrazinamide", "warning", "Pyrazinamide Low")
                       ELSE IF 10 * z_dose > 3 * weight
                       THEN Finding("Pyrazinamide", "warning", "Pyrazinamide High")
                       ELSE Finding("Pyrazinamide", "success", "Pyrazinamide dose acceptable"))

\* C5: the renal classification is a partition of the eGFR values: below 30
\* Severe with adjustment, from 30 (included) to below 60 Moderate with
\* adjustment, from 60 (included) acceptable without adjustment; page 1 shows
\* the message as an error exactly when adjustment is needed
C5_RenalBands ==
    page = PAGE_PATIENT =>
        LET egfr  == patient_data["egfr"]
            renal == check_renal_adjustment(egfr)
            band  == IF FLessRatio(egfr, 30, 1) THEN "Severe"
                     ELSE IF FLessRatio(egfr, 60, 1) THEN "Moderate"
                     ELSE "acceptable"
        IN  /\ band = "Severe" =>
                renal = <<TRUE, "Severe Renal Impairment: Pyrazinamide and Ethambutol require dose/frequency adjustment">>
            /\ band = "Moderate" =>
                renal = <<TRUE, "Moderate Renal Impairment: Monitor closely.">>
            /\ band = "acceptable" =>
                renal = <<FALSE, "Renal function acceptable.">>
            /\ findings = <<IF band = "acceptable"
                            THEN Finding("Renal", "success", "Renal Function OK")
                            ELSE Finding("Renal", "error", renal[2])>>

thirty == FFromNat(30)

C5_Witness ==
    /\ page = PAGE_PATIENT
    /\ patient_data["egfr"] = thirty
    /\ findings = <<Finding("Renal", "error", "Moderate Renal Impairment: Monitor closely.")>>

\* the patient of the eGFR example: age 25, weight 60, Male, creatinine 0.9
ExamplePatient ==
    /\ page = PAGE_PATIENT
    /\ patient_data["age"] = 25
    /\ patient_data["sex"] = "Male"
    /\ patient_data["weight"] = weight_value
    /\ patient_data["creatinine"] = creatinine_value

\* C6 as stated: for age 25, weight 60, Male, creatinine 0.9 the stored eGFR
\* is within 0.1 of 177.8 and no renal adjustment is needed
C6_EgfrExampleStated ==
    ExamplePatient =>
        /\ ~FLessRatio(patient_data["egfr"], 1777, 10)
        /\ ~RatioLessF(1779, 10, patient_data["egfr"])
        /\ findings = <<Finding("Renal", "success", "Renal Function OK")>>

\* C6 amended: for age 25, weight 60, Male, creatinine 0.9 the stored eGFR
\* is within 0.1 of 106.5 (it is 6900 / 64.8) and no renal adjustment is
\* needed
C6_EgfrExample ==
    ExamplePatient =>
        /\ ~FLessRatio(patient_data["egfr"], 1064, 10)
        /\ ~RatioLessF(1066, 10, patient_data["egfr"])
        /\ check_renal_adjustment(patient_data["egfr"])[1] = FALSE
        /\ findings = <<Finding("Renal", "success", "Renal Function OK")>>

C6_Witness ==
    /\ ExamplePatient
    /\ "egfr" \in DOMAIN patient_data
    /\ findings # <<>>

EvaluationPages == {PAGE_EVAL, PAGE_SAFETY, PAGE_REPORT}

\* C7: the pharmacotherapy evaluation, the side-effect analysis and the
\* report generation leave the stored patient record as it was, and an
\* evaluation run again on the record it left renders the same findings and
\* the same duration verdict
C7_EvaluationReadsOnly ==
    /\ [][page' \in EvaluationPages => patient_data' = patient_data]_vars
    /\ [](page = PAGE_EVAL =>
            LET again == PharmacotherapyEval(patient_data)
            IN  /\ again.data = patient_data
                /\ again.findings = findings
                /\ again.error = error
                /\ again.duration_status = duration_status)
    /\ [](page = PAGE_SAFETY =>
            LET again == SafetyAnalysis(patient_data)
            IN  again.data = patient_data /\ again.findings = findings)

C7_Witness ==
    /\ page = PAGE_EVAL
    /\ error = "none"
    /\ duration_status = "Fail"
    /\ "req_duration" \in DOMAIN patient_data
    /\ Len(findings) > 3

\* C8: the side-effect analysis lists a drug's side effects exactly when the
\* drug is in the intensive-phase set (in the order Rifampicin, Isoniazid,
\* Pyrazinamide, Ethambutol; none when the set is empty or was never
\* entered), then the HIV interaction as an error exactly when hiv_status is
\* Positive, then the diabetes note in every case
C8_SafetyFindings ==
    page = PAGE_SAFETY =>
        LET drugs == Get(patient_data, "ip_drugs", {})
            order == <<"Rifampicin", "Isoniazid", "Pyrazinamide", "Ethambutol">>
            code  == [Rifampicin |-> "Rifampicin (R)", Isoniazid |-> "Isoniazid (H)",
                      Pyrazinamide |-> "Pyrazinamide (Z)", Ethambutol |-> "Ethambutol (E)"]
            shown == OfCategory(findings, "SideEffect")
            inter == OfCategory(findings, "Interaction")
        IN  /\ error = "none"
            /\ findings = shown \o inter
            /\ shown = [i \in 1..Len(shown) |-> Finding("SideEffect", "write", shown[i].message)]
            /\ [i \in 1..Len(shown) |-> shown[i].message]
                 = SelectSeq(order, LAMBDA d : code[d] \in drugs)
            /\ inter = (IF Get(patient_data, "hiv_status", None) = "Positive"
                        THEN <<Finding("Interaction", "error", "HIV INTERACTION")>>
                        ELSE <<>>)
                       \o <<Finding("Interaction", "write", "Diabetes")>>

C8_Witness ==
    /\ page = PAGE_SAFETY
    /\ "ip_drugs" \in DOMAIN patient_data
    /\ patient_data["ip_drugs"] = {"Isoniazid (H)", "Ethambutol (E)"}
    /\ patient_data["hiv_status"] = "Positive"
    /\ Len(findings) = 4

\* the stored req_duration is 12 for TB Meningitis and Bone/Joint TB and 6
\* for every other type
ReqDurationStored ==
    "eptb_type" \in DOMAIN patient_data =>
        /\ "req_duration" \in DOMAIN patient_data
        /\ patient_data["req_duration"]
             = (IF patient_data["eptb_type"] \in SevereTypes THEN 12 ELSE 6)

PassedDuration ==
    /\ page = PAGE_EVAL
    /\ "eptb_type" \in DOMAIN patient_data
    /\ duration_status = "Pass"

\* C9 as stated: whenever the duration verdict is Pass, the total duration
\* is at least the req_duration stored for the type (12 for TB Meningitis
\* and Bone/Joint TB, 6 otherwise)
C9_PassMeetsReqDurationStated ==
    /\ ReqDurationStored
    /\ PassedDuration => Total(patient_data) >= patient_data["req_duration"]

\* C9 amended: whenever the duration verdict is Pass, the total duration is
\* at least 9 for TB Meningitis and Bone/Joint TB, whose stored req_duration
\* is 12, and at least the stored req_duration, 6, for every other type
C9_PassMeetsMinimum ==
    /\ ReqDurationStored
    /\ PassedDuration =>
          Total(patient_data) >= (IF patient_data["eptb_type"] \in SevereTypes
                                  THEN 9 ELSE patient_data["req_duration"])

C9_Witness ==
    /\ PassedDuration
    /\ patient_data["eptb_type"] = "Bone/Joint TB"
    /\ patient_data["req_duration"] = 12
    /\ Total(patient_data) = 9

StreptomycinNote == Finding("Regimen", "info", "WHO suggests considering Streptomycin")

PhaseSummary ==
    Finding("Regimen", "success", "Regimen Structure matches standard protocol structures")

\* C10: in every state the intensive-phase drug set is a subset of the four
\* selectable drugs and never holds Streptomycin; the regimen-structure
\* evaluation renders the Streptomycin note exactly when the type is TB
\* Meningitis, and renders the phase-length summary in every case
C10_RegimenStructure ==
    /\ Get(patient_data, "ip_drugs", {}) \subseteq ip_drug_options
    /\ "Streptomycin (S)" \notin Get(patient_data, "ip_drugs", {})
    /\ page = PAGE_EVAL =>
          OfCategory(findings, "Regimen")
            = (IF Get(patient_data, "eptb_type", None) = "TB Meningitis"
               THEN <<StreptomycinNote>> ELSE <<>>) \o <<PhaseSummary>>

====
